---- MODULE Spec2Model ----
(***************************************************************************)
(* State-machine model of create_COVIDx_CT.ipynb: the dataset driver       *)
(* (one notebook cell per source processor, accumulating the global        *)
(* filenames/classes manifest), the image-count cell and the split         *)
(* verification cell.                                                      *)
(*                                                                         *)
(* A Python str is the sequence of its code points: 'a.png' is             *)
(* <<97, 46, 112, 110, 103>>.  The file system is a record holding the     *)
(* working directory, the set of directories and the set of regular files, *)
(* each an absolute path written as the sequence of its component names    *)
(* (the root is <<>>); there are no symbolic links.                        *)
(***************************************************************************)
EXTENDS Integers, Sequences, FiniteSets, TLC

VARIABLES
    DATASET_VERSION,  \* the version tag ('3A')
    OUTPUT_DIR,       \* the path of the output directory ('data/COVIDx_CT-3A')
    FS,               \* the file system
    filenames,        \* global list of filenames
    classes,          \* global list of class labels
    fnames,           \* last list of filenames returned by a processor
    cls,              \* Python name cls: a list, an int or a str (tagged)
    uniq_classes,     \* image-count cell
    counts,           \* image-count cell
    split_files,      \* verification cell: list of split files to check
    split_file,       \* verification cell: position of the loop in split_files (0 before it)
    lines,            \* verification cell: number of lines of the open split file not yet visited
    line,             \* verification cell: the line the loop is at
    fname,            \* verification cell: filename token of the current line
    count,            \* verification cell: number of files found
    total,            \* verification cell: number of lines checked
    incomplete,       \* verification cell: a file was missing
    stdout,           \* what the cells printed, in order
    error,            \* the exception that stopped the run, or "none"
    invoked,          \* the source processors called so far, in call order
    visited,          \* the filename tokens of the split lines parsed so far
    bound,            \* the names bound in the kernel namespace
    pc                \* the cell (or the place in a cell) to execute next

vars == <<DATASET_VERSION, OUTPUT_DIR, FS, filenames, classes, fnames,
          cls, uniq_classes, counts, split_files, split_file, lines, line, fname,
          count, total, incomplete, stdout, error, invoked, visited, bound, pc>>

(***************************************************************************)
(* Bounds of the model.                                                    *)
(***************************************************************************)
\* longest global manifest the source processors build in a run
MaxManifest == 2
\* most split-file lines the verification visits in a run
MaxTotal == 2

\* names of the image files the processors write: 'a.png', 'b.png'
FileNames == {<<97, 46, 112, 110, 103>>, <<98, 46, 112, 110, 103>>}
\* dataset version tags that are requested: '3A', '3B', '3C'
Versions == {<<51, 65>>, <<51, 66>>, <<51, 67>>}

(***************************************************************************)
(* Python values and helpers.                                              *)
(***************************************************************************)
PyList(s) == [tag |-> "list", val |-> s]
PyInt(i) == [tag |-> "int", val |-> i]
PyStr(s) == [tag |-> "str", val |-> s]

Range(s) == {s[i] : i \in 1..Len(s)}

Min(S) == CHOOSE x \in S : \A y \in S : x <= y
Max(S) == CHOOSE x \in S : \A y \in S : x >= y

\* s[-1]
LastOf(s) == s[Len(s)]

\* str.split(sep) for a one-character sep: the fields between the
\* occurrences of sep, empty ones included
RECURSIVE split_at(_, _, _, _)
split_at(s, sep, cur, acc) ==
    IF Len(s) = 0 THEN Append(acc, cur)
    ELSE IF s[1] = sep THEN split_at(Tail(s), sep, <<>>, Append(acc, cur))
         ELSE split_at(Tail(s), sep, Append(cur, s[1]), acc)

str_split(s, sep) == split_at(s, sep, <<>>, <<>>)

(***************************************************************************)
(* os.path (posixpath) and the file system.                                *)
(***************************************************************************)
\* the number of characters of p up to and including its last '/'
rfind_slash(p) ==
    LET S == {i \in 1..Len(p) : p[i] = 47}
    IN  IF S = {} THEN 0 ELSE Max(S)

\* head.rstrip('/')
RECURSIVE rstrip_slash(_)
rstrip_slash(h) ==
    IF Len(h) > 0 /\ h[Len(h)] = 47 THEN rstrip_slash(SubSeq(h, 1, Len(h) - 1)) ELSE h

\* os.path.split(p): <<head, tail>>
os_path_split(p) ==
    LET i == rfind_slash(p)
        head == SubSeq(p, 1, i)
    IN  <<IF \E k \in 1..Len(head) : head[k] # 47 THEN rstrip_slash(head) ELSE head,
          SubSeq(p, i + 1, Len(p))>>

\* os.path.basename(p)
os_path_basename(p) == SubSeq(p, rfind_slash(p) + 1, Len(p))

\* os.path.join(a, b)
os_path_join(a, b) ==
    IF Len(b) > 0 /\ b[1] = 47 THEN b
    ELSE IF Len(a) = 0 \/ a[Len(a)] = 47 THEN a \o b
         ELSE a \o <<47>> \o b

NotFound == [found |-> FALSE, path |-> <<>>]

\* path resolution from the directory cur along the components comps: every
\* component is looked up in a directory; '' and '.' stay, '..' is the parent
\* (the root is its own parent)
RECURSIVE walk(_, _, _)
walk(fs, cur, comps) ==
    IF Len(comps) = 0 THEN [found |-> TRUE, path |-> cur]
    ELSE IF cur \notin fs.dirs THEN NotFound
    ELSE LET c == Head(comps)
         IN  IF c = <<>> \/ c = <<46>> THEN walk(fs, cur, Tail(comps))
             ELSE IF c = <<46, 46>>
                  THEN walk(fs, IF Len(cur) = 0 THEN cur ELSE SubSeq(cur, 1, Len(cur) - 1),
                            Tail(comps))
                  ELSE IF Append(cur, c) \in fs.dirs \cup fs.files
                       THEN walk(fs, Append(cur, c), Tail(comps))
                       ELSE NotFound

\* os.stat(p): the entry the path p names, a relative path starting at the
\* working directory
resolve(fs, p) ==
    IF Len(p) = 0 THEN NotFound
    ELSE walk(fs, IF p[1] = 47 THEN <<>> ELSE fs.cwd, str_split(p, 47))

\* os.path.exists(p)
path_exists_always(fs, p) == TRUE
path_exists(fs, p) == resolve(fs, p).found

\* os.path.isdir(p)
path_isdir(fs, p) == resolve(fs, p).found /\ resolve(fs, p).path \in fs.dirs

\* the names os.scandir(d) yields ('' is the working directory), the
\* directories alone when dironly
listdir(fs, d, dironly) ==
    LET r == resolve(fs, IF Len(d) = 0 THEN <<46>> ELSE d)
        ents == IF dironly THEN fs.dirs ELSE fs.dirs \cup fs.files
    IN  IF r.found /\ r.path \in fs.dirs
        THEN {q[Len(q)] : q \in {e \in ents : /\ Len(e) = Len(r.path) + 1
                                              /\ SubSeq(e, 1, Len(r.path)) = r.path}}
        ELSE {}

\* os.makedirs walking the components comps from directory cur: a missing
\* directory is created, '' and '.' stay, '..' is the parent; a regular file
\* on the way raises NotADirectoryError, one as the last component
\* FileExistsError
RECURSIVE mkdirs(_, _, _)
mkdirs(fs, cur, comps) ==
    IF cur \in fs.files THEN [fs |-> fs, error |-> "NotADirectoryError"]
    ELSE IF Len(comps) = 0 THEN [fs |-> fs, error |-> "none"]
    ELSE LET c == Head(comps)
         IN  IF c = <<>> \/ c = <<46>> THEN mkdirs(fs, cur, Tail(comps))
             ELSE IF c = <<46, 46>>
                  THEN mkdirs(fs, IF Len(cur) = 0 THEN cur ELSE SubSeq(cur, 1, Len(cur) - 1),
                              Tail(comps))
                  ELSE IF Append(cur, c) \in fs.files
                       THEN IF Len(comps) = 1
                            THEN [fs |-> fs, error |-> "FileExistsError"]
                            ELSE mkdirs(fs, Append(cur, c), Tail(comps))
                       ELSE mkdirs([fs EXCEPT !.dirs = @ \cup {Append(cur, c)}],
                                   Append(cur, c), Tail(comps))

\* os.makedirs(p, exist_ok=True): the file system after it and the exception
\* it raised, or "none"
os_makedirs(fs, p) ==
    IF Len(p) = 0 THEN [fs |-> fs, error |-> "FileNotFoundError"]
    ELSE mkdirs(fs, IF p[1] = 47 THEN <<>> ELSE fs.cwd, str_split(rstrip_slash(p), 47))

(***************************************************************************)
(* fnmatch and glob.                                                       *)
(***************************************************************************)
\* glob.has_magic(s): s holds one of * ? [
has_magic(s) == \E i \in 1..Len(s) : s[i] \in {42, 63, 91}

\* p starts with '[': the position of the ']' that closes the character
\* class (a '!' and a ']' right after the '[' belong to the class), 0 if none
class_end(p) ==
    LET n == Len(p)
        j1 == IF 2 <= n /\ p[2] = 33 THEN 3 ELSE 2
        j2 == IF j1 <= n /\ p[j1] = 93 THEN j1 + 1 ELSE j1
        closing == {j \in j2..n : p[j] = 93}
    IN  IF closing = {} THEN 0 ELSE Min(closing)

\* the positions of the hyphens of the class body b that make a range: the
\* first hyphen from position k on that is not the last character, then the
\* next one at least three positions further
RECURSIVE hyphens(_, _)
hyphens(b, k) ==
    LET hs == {h \in k..(Len(b) - 1) : b[h] = 45}
    IN  IF hs = {} THEN {} ELSE {Min(hs)} \cup hyphens(b, Min(hs) + 3)

\* c matches the character class [stuff]: c lies in a range lo-hi (an empty
\* range, lo > hi, matches nothing) or is one of the other characters; a
\* leading '!' negates
in_class(stuff, c) ==
    LET neg == stuff[1] = 33
        b == IF neg THEN Tail(stuff) ELSE stuff
        hs == hyphens(b, 2)
    IN  ((\E h \in hs : b[h - 1] <= c /\ c <= b[h + 1])
         \/ (\E i \in 1..Len(b) : b[i] = c /\ \A h \in hs : i \notin {h - 1, h, h + 1}))
        # neg

\* fnmatch.fnmatchcase(s, p)
RECURSIVE fnmatch(_, _)
fnmatch(p, s) ==
    IF Len(p) = 0 THEN Len(s) = 0
    ELSE IF p[1] = 42
         THEN \E k \in 0..Len(s) : fnmatch(Tail(p), SubSeq(s, k + 1, Len(s)))
    ELSE IF Len(s) = 0 THEN FALSE
    ELSE IF p[1] = 63 THEN fnmatch(Tail(p), Tail(s))
    ELSE IF p[1] = 91 /\ class_end(p) # 0
         THEN /\ in_class(SubSeq(p, 2, class_end(p) - 1), s[1])
              /\ fnmatch(SubSeq(p, class_end(p) + 1, Len(p)), Tail(s))
         ELSE s[1] = p[1] /\ fnmatch(Tail(p), Tail(s))

\* glob._ishidden(s)
ishidden(s) == Len(s) > 0 /\ s[1] = 46

\* glob._glob1: the names of directory d that match the pattern; a name
\* starting with '.' is matched only by a pattern starting with '.'
glob1(fs, d, pattern, dironly) ==
    {x \in listdir(fs, d, dironly) : (ishidden(pattern) \/ ~ishidden(x)) /\ fnmatch(pattern, x)}

\* glob._glob0: the literal name, when it exists in d
glob0(fs, d, basename, dironly) ==
    IF Len(basename) > 0
    THEN IF path_exists(fs, os_path_join(d, basename)) THEN {basename} ELSE {}
    ELSE IF path_isdir(fs, d) THEN {basename} ELSE {}

\* the orders in which a directory listing may yield the names of S
Orders(S) == {q \in [1..Cardinality(S) -> S] : \A i, j \in 1..Cardinality(S) : q[i] = q[j] => i = j}

\* the matches of basename in the directories ds, those of each directory
\* together and in the order of its listing
RECURSIVE glob_in_dirs(_, _, _, _)
glob_in_dirs(fs, ds, basename, dironly) ==
    IF Len(ds) = 0 THEN {<<>>}
    ELSE {x \o y :
            x \in Orders({os_path_join(ds[1], n) :
                            n \in IF has_magic(basename)
                                  THEN glob1(fs, ds[1], basename, dironly)
                                  ELSE glob0(fs, ds[1], basename, dironly)}),
            y \in glob_in_dirs(fs, Tail(ds), basename, dironly)}

\* glob._iglob: the lists glob may return
RECURSIVE iglob(_, _, _)
iglob(fs, pathname, dironly) ==
    LET dirname == os_path_split(pathname)[1]
        basename == os_path_split(pathname)[2]
    IN  IF ~has_magic(pathname)
        THEN IF Len(basename) > 0
             THEN IF path_exists(fs, pathname) THEN {<<pathname>>} ELSE {<<>>}
             ELSE IF path_isdir(fs, dirname) THEN {<<pathname>>} ELSE {<<>>}
        ELSE IF Len(dirname) = 0 THEN Orders(glob1(fs, dirname, basename, dironly))
        ELSE UNION {glob_in_dirs(fs, ds, basename, dironly) :
                      ds \in IF dirname # pathname /\ has_magic(dirname)
                             THEN iglob(fs, dirname, TRUE)
                             ELSE {<<dirname>>}}

\* glob.glob(pathname)
glob(fs, pathname) == iglob(fs, pathname, FALSE)

(***************************************************************************)
(* Configuration cells.                                                    *)
(***************************************************************************)
\* 'data/COVIDx_CT-{}'.format(version)
output_dir(version) == <<100, 97, 116, 97, 47, 67, 79, 86, 73, 68, 120, 95, 67, 84, 45>> \o version

\* the directory the notebook is run in
WorkDir == <<<<114, 101, 112, 111>>>>

\* the file system before the notebook runs: the working directory and
\* splits/v3 in it
BaseFS ==
    [cwd |-> WorkDir,
     dirs |-> {<<>>, WorkDir, Append(WorkDir, <<115, 112, 108, 105, 116, 115>>),
               WorkDir \o <<<<115, 112, 108, 105, 116, 115>>, <<118, 51>>>>},
     files |-> {}]

\* CLASS_MAP.items(), in insertion order
CLASS_MAP == <<<<"Normal", 0>>, <<"Pneumonia", 1>>, <<"COVID-19", 2>>>>

ClassLabels == {CLASS_MAP[i][2] : i \in 1..Len(CLASS_MAP)}

(***************************************************************************)
(* Data preparation cells.                                                 *)
(***************************************************************************)
\* the fixed cell order of the notebook
ProcessorOrder ==
    <<"cncb", "radiopaedia_coronacases_seg", "radiopaedia", "lidc_idri",
      "covid_19_20", "tcia_covid", "covid_ctset", "ictcf", "covid_ct_md",
      "stoic", "stonybrook">>

MosMedOrder == <<"mosmed_seg", "mosmed_unseg">>

\* what a source processor may return: a filename list and a class list of
\* equal length, at most n entries
ProcessorReturns(n) ==
    UNION {[1..k -> FileNames] \X [1..k -> ClassLabels] : k \in 0..n}

\* files a processor that raises may already have written
PartialWrites == {{}} \cup {{f} : f \in FileNames}

\* the file system after files named names were written in directory dir
write_files(fs, dir, names) ==
    [fs EXCEPT !.files = @ \cup {Append(resolve(fs, dir).path, f) : f \in names}]

\* filenames.extend(fnames)
filenames_extend_prepend(list, items) == items \o list
filenames_extend(list, items) == list \o items

\* classes.extend(cls)
classes_extend_skipped(list, items) == list
classes_extend(list, items) == list \o items

\* an exception in a cell is not caught: the run stops at that cell
after_raise_continue(nxt) == nxt
after_raise(nxt) == "aborted"

\* DATASET_VERSION[-1] == 'B'
mosmed_enabled_not_a == LastOf(DATASET_VERSION) # 65
mosmed_enabled == LastOf(DATASET_VERSION) = 66

VerifyUnchanged ==
    UNCHANGED <<split_files, split_file, lines, line, fname, count,
                total, incomplete, visited>>

\* fnames, cls = process_x(...); filenames.extend(fnames); classes.extend(cls)
ProcessorReturnsStep(p, nxt) ==
    /\ pc = p
    /\ \E r \in ProcessorReturns(MaxManifest - Len(filenames)) :
          /\ fnames' = r[1]
          /\ cls' = PyList(r[2])
          /\ filenames' = filenames_extend(filenames, r[1])
          /\ classes' = classes_extend(classes, r[2])
          /\ FS' = write_files(FS, OUTPUT_DIR, Range(r[1]))
    /\ invoked' = Append(invoked, p)
    /\ bound' = bound \cup {"fnames", "cls"}
    /\ pc' = nxt
    /\ UNCHANGED <<DATASET_VERSION, OUTPUT_DIR, uniq_classes, counts, stdout, error>>
    /\ VerifyUnchanged

\* process_x(...) raises: the assignment and both extends are not executed
ProcessorRaisesStep(p, nxt) ==
    /\ pc = p
    /\ \E w \in PartialWrites : FS' = write_files(FS, OUTPUT_DIR, w)
    /\ invoked' = Append(invoked, p)
    /\ error' = "ProcessorError"
    /\ pc' = after_raise(nxt)
    /\ UNCHANGED <<DATASET_VERSION, OUTPUT_DIR, filenames, classes, fnames, cls,
                   uniq_classes, counts, stdout, bound>>
    /\ VerifyUnchanged

ProcessorCell(p, nxt) == ProcessorReturnsStep(p, nxt) \/ ProcessorRaisesStep(p, nxt)

ProcessCNCB == ProcessorCell("cncb", "radiopaedia_coronacases_seg")
ProcessRadiopaediaCoronacasesSeg == ProcessorCell("radiopaedia_coronacases_seg", "radiopaedia")
ProcessRadiopaedia == ProcessorCell("radiopaedia", "lidc_idri")
ProcessLidcIdri == ProcessorCell("lidc_idri", "covid_19_20")
ProcessCovid1920 == ProcessorCell("covid_19_20", "tcia_covid")
ProcessTciaCovid == ProcessorCell("tcia_covid", "covid_ctset")
ProcessCovidCtset == ProcessorCell("covid_ctset", "ictcf")
ProcessIctcf == ProcessorCell("ictcf", "covid_ct_md")
ProcessCovidCtMd == ProcessorCell("covid_ct_md", "stoic")
ProcessStoic == ProcessorCell("stoic", "stonybrook")
ProcessStonyBrook == ProcessorCell("stonybrook", "mosmed")

\* if DATASET_VERSION[-1] == 'B': ... (the cell does nothing otherwise; an
\* empty version tag has no last character: IndexError)
MosMedGate ==
    /\ pc = "mosmed"
    /\ pc' = IF Len(DATASET_VERSION) = 0 THEN "aborted"
             ELSE IF mosmed_enabled THEN "mosmed_seg" ELSE "counts"
    /\ error' = IF Len(DATASET_VERSION) = 0 THEN "IndexError" ELSE error
    /\ UNCHANGED <<DATASET_VERSION, OUTPUT_DIR, FS, filenames, classes, fnames, cls,
                   uniq_classes, counts, stdout, invoked, bound>>
    /\ VerifyUnchanged

ProcessMosMedSeg == ProcessorCell("mosmed_seg", "mosmed_unseg")
ProcessMosMedUnseg == ProcessorCell("mosmed_unseg", "counts")

(***************************************************************************)
(* Image-count cell.                                                       *)
(***************************************************************************)
\* number of entries of s equal to v
CountOf(s, v) == Cardinality({i \in 1..Len(s) : s[i] = v})

\* np.arange(n, dtype=np.int32)
np_arange(n) == [i \in 1..n |-> i - 1]

\* uniq_classes == cls: the boolean ndarray of the elementwise comparison
ndarray_eq(u, c) == [tag |-> "ndarray", val |-> [i \in 1..Len(u) |-> u[i] = c]]

\* list[index]: a Python list takes an int index i with -len <= i < len (a
\* negative one counts from the end) and raises IndexError outside that range;
\* a boolean ndarray does not convert to an index and list.__getitem__ raises
\* TypeError
list_getitem(list, index) ==
    IF index.tag = "int"
    THEN IF index.val >= 0 /\ index.val < Len(list)
         THEN [tag |-> "value", val |-> list[index.val + 1]]
         ELSE IF index.val < 0 /\ 0 - index.val <= Len(list)
              THEN [tag |-> "value", val |-> list[Len(list) + index.val + 1]]
              ELSE [tag |-> "raise", val |-> "IndexError"]
    ELSE [tag |-> "raise", val |-> "TypeError"]

\* for name, cls in CLASS_MAP.items(): print(name, counts[uniq_classes == cls])
RECURSIVE print_counts(_, _, _, _, _)
print_counts(i, u, c, out, last) ==
    IF i > Len(CLASS_MAP)
    THEN [stdout |-> out, error |-> "none", cls |-> last, pc |-> "done"]
    ELSE LET r == list_getitem(c, ndarray_eq(u, CLASS_MAP[i][2]))
         IN  IF r.tag = "raise"
             THEN [stdout |-> out, error |-> r.val, cls |-> PyInt(CLASS_MAP[i][2]),
                   pc |-> "aborted"]
             ELSE print_counts(i + 1, u, c, Append(out, <<CLASS_MAP[i][1], r.val>>),
                               PyInt(CLASS_MAP[i][2]))

\* uniq_classes = np.arange(3, dtype=np.int32)
NumClasses == 3

\* the cell: the result of np.unique is overwritten by the next two statements
PrintImageCounts ==
    /\ pc = "counts"
    /\ uniq_classes' = np_arange(NumClasses)
    /\ counts' = <<>>
    /\ LET r == print_counts(1, uniq_classes', counts',
                             Append(stdout, <<"Image Counts">>), cls)
       IN  /\ stdout' = r.stdout
           /\ error' = r.error
           /\ cls' = r.cls
           /\ pc' = r.pc
    /\ bound' = bound \cup {"CLASS_MAP", "uniq_classes", "counts", "name", "cls"}
    /\ UNCHANGED <<DATASET_VERSION, OUTPUT_DIR, FS, filenames, classes, fnames, invoked>>
    /\ VerifyUnchanged

(***************************************************************************)
(* Verification cell.                                                      *)
(***************************************************************************)
\* os.path.join('splits/v' + version[0], '*_COVIDx_CT-{}.txt'.format(version))
split_pattern(version) ==
    os_path_join(<<115, 112, 108, 105, 116, 115, 47, 118>> \o <<version[1]>>, <<42, 95, 67, 79, 86, 73, 68, 120, 95, 67, 84, 45>> \o version \o <<46, 116, 120, 116>>)

\* os.path.basename(split_file).split('_')[0]
split_name(f) == str_split(os_path_basename(f), 95)[1]

\* DATASET_VERSION[0] + 'A'
a_var == <<DATASET_VERSION[1]>> \o <<65>>

\* len(split_files) != 3
NumSplits == 3

\* [f for f in split_files_a if split_name(f) not in existing_splits]
not_existing_keep_all(files_a, existing_splits) == files_a
not_existing(files_a, existing_splits) ==
    SelectSeq(files_a, LAMBDA f : split_name(f) \notin existing_splits)

\* lines 422-428: the list after the default to the "A" variant, for each
\* order glob may return the "A" files in
with_a_variant(found) ==
    IF Len(found) # NumSplits
    THEN {found \o not_existing(fa, {split_name(found[i]) : i \in 1..Len(found)}) :
            fa \in glob(FS, split_pattern(a_var))}
    ELSE {found}

DriverUnchanged ==
    UNCHANGED <<DATASET_VERSION, OUTPUT_DIR, FS, filenames, classes, fnames,
                uniq_classes, counts, invoked>>

\* lines 418-420: no split file of the requested version: raise ValueError
no_split_files_use_a(found) == Len(found) = 0 /\ glob(FS, split_pattern(a_var)) = {<<>>}
no_split_files(found) == Len(found) = 0

\* line 418 with an empty version tag (DATASET_VERSION[0]: IndexError), or
\* lines 418-420 when glob finds nothing
SplitFilesNotFound ==
    /\ pc = "verify"
    /\ IF Len(DATASET_VERSION) = 0
       THEN /\ error' = "IndexError"
            /\ UNCHANGED <<split_files, bound>>
       ELSE /\ \E found \in glob(FS, split_pattern(DATASET_VERSION)) :
                  /\ no_split_files(found)
                  /\ split_files' = found
            /\ error' = "ValueError"
            /\ bound' = bound \cup {"split_files"}
    /\ pc' = "aborted"
    /\ UNCHANGED <<cls, split_file, lines, line, fname, count, total, incomplete,
                   stdout, visited>>
    /\ DriverUnchanged

\* lines 418-433: the split files to check, then count = 0, total = 0,
\* incomplete = False
GetSplitFiles ==
    /\ pc = "verify"
    /\ Len(DATASET_VERSION) > 0
    /\ \E found \in glob(FS, split_pattern(DATASET_VERSION)) :
          /\ ~no_split_files(found)
          /\ split_files' \in with_a_variant(found)
          /\ bound' = bound \cup {"split_files", "count", "total", "incomplete"}
                            \cup (IF Len(found) # NumSplits
                                  THEN {"a_var", "existing_splits", "split_files_a"}
                                  ELSE {})
    /\ count' = 0
    /\ total' = 0
    /\ incomplete' = FALSE
    /\ pc' = "for_split_file"
    /\ UNCHANGED <<cls, split_file, lines, line, fname, stdout, error, visited>>
    /\ DriverUnchanged

\* for split_file in split_files: with open(split_file, 'r') as f: f.readlines()
\* (the number of lines of the file; each line is drawn when the loop reaches
\* it); open() of a directory raises IsADirectoryError
OpenSplitFile ==
    /\ pc = "for_split_file"
    /\ split_file < Len(split_files)
    /\ split_file' = split_file + 1
    /\ IF path_isdir(FS, split_files[split_file + 1])
       THEN /\ error' = "IsADirectoryError"
            /\ pc' = "aborted"
            /\ bound' = bound \cup {"split_file"}
            /\ UNCHANGED lines
       ELSE /\ lines' \in 0..(MaxTotal - total)
            /\ pc' = "for_line"
            /\ bound' = bound \cup {"split_file", "f"}
            /\ UNCHANGED error
    /\ UNCHANGED <<cls, split_files, line, fname, count, total, incomplete, stdout,
                   visited>>
    /\ DriverUnchanged

\* the lines a split file may hold: '\n', 'a.png\n', 'a.png 1\n', 'c.png 2\n',
\* 'a.png 1 0.1\n', 'a.png vt 1\n', 'a.png\x0c1\n', 'a.png\x0c\n', and a last
\* line 'b.png 1' without its newline
SplitLines ==
    {<<10>>, <<97, 46, 112, 110, 103, 10>>, <<97, 46, 112, 110, 103, 32, 49, 10>>, <<99, 46, 112, 110, 103, 32, 50, 10>>, <<97, 46, 112, 110, 103, 32, 49, 32, 48, 46, 49, 10>>,
     <<97, 46, 112, 110, 103, 32, 118, 116, 32, 49, 10>>, <<97, 46, 112, 110, 103, 12, 49, 10>>, <<97, 46, 112, 110, 103, 12, 10>>, <<98, 46, 112, 110, 103, 32, 49>>}

\* the characters str.split() separates fields at (str.isspace): U+0009-000D,
\* U+001C-001F, U+0020, U+0085, U+00A0, U+1680, U+2000-200A, U+2028, U+2029,
\* U+202F, U+205F, U+3000
Whitespace ==
    (9..13) \cup (28..32) \cup {133, 160, 5760} \cup (8192..8202)
    \cup {8232, 8233, 8239, 8287, 12288}

\* line.strip('\n')
RECURSIVE strip_newline(_)
strip_newline(l) ==
    IF Len(l) > 0 /\ l[1] = 10 THEN strip_newline(Tail(l))
    ELSE IF Len(l) > 0 /\ l[Len(l)] = 10
         THEN strip_newline(SubSeq(l, 1, Len(l) - 1))
         ELSE l

\* str.split(): the maximal runs of characters that are not whitespace
RECURSIVE split_whitespace(_, _, _)
split_whitespace(s, cur, acc) ==
    IF Len(s) = 0 THEN (IF Len(cur) = 0 THEN acc ELSE Append(acc, cur))
    ELSE IF s[1] \in Whitespace
         THEN split_whitespace(Tail(s), <<>>, IF Len(cur) = 0 THEN acc ELSE Append(acc, cur))
         ELSE split_whitespace(Tail(s), Append(cur, s[1]), acc)

py_split(l) == split_whitespace(l, <<>>, <<>>)

\* x[:2]
first_two_no_slice(t) == t
first_two(t) == SubSeq(t, 1, IF Len(t) < 2 THEN Len(t) ELSE 2)

\* total += 1
total_inc(n) == n + 1

\* incomplete = True
set_incomplete_never(b) == b
set_incomplete(b) == TRUE

\* fname, cls = line.strip('\n').split()[:2] with fewer than two fields:
\* ValueError (not enough values to unpack), nothing is assigned
unpack_fails(t) == Len(t) # 2

ParseLineFails ==
    /\ pc = "for_line"
    /\ lines > 0
    /\ \E l \in SplitLines :
          /\ unpack_fails(first_two(py_split(strip_newline(l))))
          /\ line' = l
    /\ lines' = lines - 1
    /\ error' = "ValueError"
    /\ pc' = "aborted"
    /\ bound' = bound \cup {"line"}
    /\ UNCHANGED <<cls, split_files, split_file, fname, count, total, incomplete,
                   stdout, visited>>
    /\ DriverUnchanged

\* lines 437-445
CheckLine ==
    /\ pc = "for_line"
    /\ lines > 0
    /\ \E l \in SplitLines :
          LET t == first_two(py_split(strip_newline(l)))
          IN  /\ ~unpack_fails(t)
              /\ line' = l
              /\ fname' = t[1]
              /\ cls' = PyStr(t[2])
              /\ visited' = Append(visited, t[1])
              /\ total' = total_inc(total)
              /\ IF path_exists(FS, os_path_join(OUTPUT_DIR, t[1]))
                 THEN /\ count' = count + 1
                      /\ UNCHANGED <<stdout, incomplete>>
                 ELSE /\ stdout' = Append(stdout, <<"Missing", t[1]>>)
                      /\ incomplete' = set_incomplete(incomplete)
                      /\ UNCHANGED count
    /\ lines' = lines - 1
    /\ bound' = bound \cup {"line", "fname", "cls", "fpath"}
    /\ UNCHANGED <<split_files, split_file, error, pc>>
    /\ DriverUnchanged

\* the inner loop ends: the file is closed and the outer loop goes on
CloseSplitFile ==
    /\ pc = "for_line"
    /\ lines = 0
    /\ pc' = "for_split_file"
    /\ UNCHANGED <<cls, split_files, split_file, lines, line, fname, count, total,
                   incomplete, stdout, error, visited, bound>>
    /\ DriverUnchanged

\* lines 446-449
summary(inc, c, t) ==
    IF inc THEN <<"files are missing, dataset is incomplete!", c, t>>
    ELSE <<"files created, dataset successfully constructed!", c, t>>

Report ==
    /\ pc = "for_split_file"
    /\ split_file = Len(split_files)
    /\ stdout' = Append(stdout, summary(incomplete, count, total))
    /\ pc' = "done"
    /\ UNCHANGED <<cls, split_files, split_file, lines, line, fname, count, total,
                   incomplete, error, visited, bound>>
    /\ DriverUnchanged

(***************************************************************************)
(* Specifications.                                                         *)
(***************************************************************************)
\* the notebook run from the cell after filenames, classes = [], []
Init ==
    /\ DATASET_VERSION \in Versions
    /\ OUTPUT_DIR = output_dir(DATASET_VERSION)
    /\ FS = os_makedirs(BaseFS, OUTPUT_DIR).fs
    /\ filenames = <<>>
    /\ classes = <<>>
    /\ fnames = <<>>
    /\ cls = PyList(<<>>)
    /\ uniq_classes = <<>>
    /\ counts = <<>>
    /\ split_files = <<>>
    /\ split_file = 0
    /\ lines = 0
    /\ line = <<>>
    /\ fname = <<>>
    /\ count = 0
    /\ total = 0
    /\ incomplete = FALSE
    /\ stdout = <<>>
    /\ error = "none"
    /\ invoked = <<>>
    /\ visited = <<>>
    /\ bound = {"DATASET_VERSION", "OUTPUT_DIR", "filenames", "classes"}
    /\ pc = "cncb"

Next ==
    \/ ProcessCNCB
    \/ ProcessRadiopaediaCoronacasesSeg
    \/ ProcessRadiopaedia
    \/ ProcessLidcIdri
    \/ ProcessCovid1920
    \/ ProcessTciaCovid
    \/ ProcessCovidCtset
    \/ ProcessIctcf
    \/ ProcessCovidCtMd
    \/ ProcessStoic
    \/ ProcessStonyBrook
    \/ MosMedGate
    \/ ProcessMosMedSeg
    \/ ProcessMosMedUnseg
    \/ PrintImageCounts

Spec == Init /\ [][Next]_vars

\* the split names of the release: 'train', 'val', 'test'
SplitNames == {<<116, 114, 97, 105, 110>>, <<118, 97, 108>>, <<116, 101, 115, 116>>}

\* the name of the split file of split s and version v
split_file_name(s, v) == s \o <<95, 67, 79, 86, 73, 68, 120, 95, 67, 84, 45>> \o v \o <<46, 116, 120, 116>>

\* the directory splits/v3
SplitsDir == WorkDir \o <<<<115, 112, 108, 105, 116, 115>>, <<118, 51>>>>

\* the split files that may be present in splits/v3
AllSplitFiles ==
    {Append(SplitsDir, split_file_name(s, v)) : s \in SplitNames, v \in {<<51, 65>>, <<51, 66>>}}

\* files of splits/v3 that are not split files: '.train_COVIDx_CT-3B.txt' (a
\* hidden file) and 'README.md'
OtherFiles ==
    {Append(SplitsDir, <<46, 116, 114, 97, 105, 110, 95, 67, 79, 86, 73, 68, 120, 95, 67, 84, 45, 51, 66, 46, 116, 120, 116>>), Append(SplitsDir, <<82, 69, 65, 68, 77, 69, 46, 109, 100>>)}

\* a list holding each element of S once, in the order of FileNameOrder
FileNameOrder == <<<<97, 46, 112, 110, 103>>, <<98, 46, 112, 110, 103>>>>
ListOf(S) == SelectSeq(FileNameOrder, LAMBDA f : f \in S)

\* The verification cell run after a construction that completed: the
\* output directory holds the files the processors wrote.
InitVerify ==
    /\ DATASET_VERSION \in Versions
    /\ OUTPUT_DIR = output_dir(DATASET_VERSION)
    /\ \E S \in SUBSET AllSplitFiles, W \in SUBSET FileNames :
          /\ FS = write_files([os_makedirs(BaseFS, OUTPUT_DIR).fs
                                 EXCEPT !.files = S \cup OtherFiles],
                              OUTPUT_DIR, W)
          /\ filenames = ListOf(W)
    /\ classes = [i \in 1..Len(filenames) |-> 2]
    /\ fnames = <<>>
    /\ cls = PyList(<<>>)
    /\ uniq_classes = <<>>
    /\ counts = <<>>
    /\ split_files = <<>>
    /\ split_file = 0
    /\ lines = 0
    /\ line = <<>>
    /\ fname = <<>>
    /\ count = 0
    /\ total = 0
    /\ incomplete = FALSE
    /\ stdout = <<>>
    /\ error = "none"
    /\ invoked = ProcessorOrder \o (IF mosmed_enabled THEN MosMedOrder ELSE <<>>)
    /\ visited = <<>>
    /\ bound = {"DATASET_VERSION", "OUTPUT_DIR", "filenames", "classes", "fnames", "cls"}
    /\ pc = "verify"

NextVerify ==
    \/ SplitFilesNotFound
    \/ GetSplitFiles
    \/ OpenSplitFile
    \/ ParseLineFails
    \/ CheckLine
    \/ CloseSplitFile
    \/ Report

SpecVerify == InitVerify /\ [][NextVerify]_vars

(***************************************************************************)
(* Properties.                                                             *)
(***************************************************************************)
IsPrefix(s, t) == Len(s) <= Len(t) /\ SubSeq(t, 1, Len(s)) = s

\* the source processors a full run calls, in order
FullOrder ==
    ProcessorOrder \o (IF LastOf(DATASET_VERSION) = 66 THEN MosMedOrder ELSE <<>>)

\* the "A" variant of the requested major version
BaseVersion == <<DATASET_VERSION[1], 65>>
\* split s has a split file of version v in splits/v3
HasSplitFile(s, v) == Append(SplitsDir, split_file_name(s, v)) \in FS.files
\* the path the verification uses for that file
SplitFilePath(s, v) == <<115, 112, 108, 105, 116, 115, 47, 118, 51, 47>> \o split_file_name(s, v)
\* the splits the requested version provides, its split files and those of
\* the "A" variant
RequestedSplits == {s \in SplitNames : HasSplitFile(s, DATASET_VERSION)}
Requested == {SplitFilePath(s, DATASET_VERSION) : s \in RequestedSplits}
BaseVariant == {SplitFilePath(s, BaseVersion) : s \in {x \in SplitNames : HasSplitFile(x, BaseVersion)}}

\* a file named f is in the output directory
InOutputDir(f) ==
    (WorkDir \o <<<<100, 97, 116, 97>>, <<67, 79, 86, 73, 68, 120, 95, 67, 84, 45>> \o DATASET_VERSION, f>>) \in FS.files
\* the names of the files in the output directory
OutputFiles == {f \in FileNames \cup {<<99, 46, 112, 110, 103>>} : InOutputDir(f)}

\* the 'Missing <fname>' reports printed so far, in order
MissingReports == SelectSeq(stdout, LAMBDA m : m[1] = "Missing")
\* the visited filenames that do not exist under the output directory, in order
AbsentVisited == SelectSeq(visited, LAMBDA f : ~InOutputDir(f))
PresentCount == Cardinality({i \in 1..Len(visited) : InOutputDir(visited[i])})

ReportedComplete ==
    Len(stdout) > 0 /\ LastOf(stdout)[1] = "files created, dataset successfully constructed!"
ReportedIncomplete ==
    Len(stdout) > 0 /\ LastOf(stdout)[1] = "files are missing, dataset is incomplete!"
SummaryPrinted == ReportedComplete \/ ReportedIncomplete

\* the fields of the line the loop is at
LineFields == py_split(strip_newline(line))

\* C1: split verifier tally. While the lines have at least two fields the
\* verifier keeps total = number of lines visited, count = number of visited
\* lines whose file exists under the output directory, and one 'Missing'
\* report per visited line whose file is absent (it does not stop at the
\* first one); when it finishes every split file has been iterated to its
\* end and the summary is 'complete' exactly when count = total, and
\* 'incomplete' with count and total otherwise.
C1_VerifierTally ==
    /\ ("total" \in bound /\ error = "none") =>
          /\ total = Len(visited)
          /\ count = PresentCount
          /\ Len(MissingReports) = Len(AbsentVisited)
          /\ \A i \in 1..Len(AbsentVisited) : MissingReports[i] = <<"Missing", AbsentVisited[i]>>
          /\ ~SummaryPrinted <=> pc # "done"
    /\ pc = "done" =>
          /\ split_file = Len(split_files)
          /\ lines = 0
          /\ ReportedComplete <=> count = total
          /\ ReportedIncomplete <=> count # total
          /\ LastOf(stdout)[2] = count /\ LastOf(stdout)[3] = total

\* the spec's scenario: output {a.png, b.png}, lines for c.png and a.png:
\* count = 1, total = 2, c.png reported missing, incomplete
C1_Witness ==
    /\ pc = "done"
    /\ OutputFiles = {<<97, 46, 112, 110, 103>>, <<98, 46, 112, 110, 103>>}
    /\ visited = <<<<99, 46, 112, 110, 103>>, <<97, 46, 112, 110, 103>>>>
    /\ count = 1
    /\ total = 2
    /\ stdout = <<<<"Missing", <<99, 46, 112, 110, 103>>>>,
                  <<"files are missing, dataset is incomplete!", 1, 2>>>>

\* C2 as stated: the verifier does not report 'successfully constructed'
\* unless the set of filenames written by the processors equals the set of
\* filenames the split files reference.
C2_ExactEquality ==
    (pc = "done" /\ ReportedComplete) => Range(filenames) = Range(visited)

\* C2 amended: the verifier reports 'incomplete' exactly when a filename the
\* split files reference does not exist under the output directory; a file
\* written by a processor and referenced by no split file is not detected.
C2_ReferencedPresent ==
    pc = "done" =>
        /\ ReportedIncomplete <=> ~(Range(visited) \subseteq OutputFiles)
        /\ ReportedComplete <=> Range(visited) \subseteq OutputFiles

C2_Witness ==
    /\ pc = "done"
    /\ ReportedComplete
    /\ visited # <<>>
    /\ Range(visited) \subseteq OutputFiles
    /\ Range(filenames) # Range(visited)

\* C3: version fallback. Once split files of the requested version are
\* found, the list to check holds each of them once; when they do not cover
\* the three splits it also holds, once each, exactly the "A" variant's files
\* of the splits the requested version lacks, and none for a split it
\* provides; when they cover the three splits nothing is added; either way
\* no error is raised and checking starts.
C3_VersionFallback ==
    (Requested # {} /\ pc # "verify") =>
        /\ "count" \in bound
        /\ Len(split_files) = Cardinality(Range(split_files))
        /\ Range(split_files) =
              Requested \cup
              (IF RequestedSplits # SplitNames
               THEN {SplitFilePath(s, BaseVersion) :
                       s \in {x \in SplitNames \ RequestedSplits : HasSplitFile(x, BaseVersion)}}
               ELSE {})
        /\ \A f \in Range(split_files) \ Requested :
              /\ f \in BaseVariant
              /\ \A s \in RequestedSplits : f # SplitFilePath(s, BaseVersion)
        /\ (error # "none" => "line" \in bound)

C3_Witness ==
    /\ DATASET_VERSION = <<51, 66>>
    /\ Cardinality(Requested) = 2
    /\ Cardinality(BaseVariant) = 3
    /\ Len(split_files) = 3
    /\ \E i \in 1..3 : split_files[i] \in BaseVariant
    /\ pc = "for_line"
    /\ total = 1

\* C4: configuration error. With no split file of the requested version the
\* cell stops with ValueError: no completeness summary, count and total never
\* assigned, no split file opened, no line read, whether or not "A" variant
\* files exist.
C4_NoSplitFiles ==
    (Requested = {} /\ pc # "verify") =>
        /\ pc = "aborted"
        /\ error = "ValueError"
        /\ bound \cap {"count", "total", "incomplete", "split_file", "line", "fname"} = {}
        /\ split_file = 0
        /\ visited = <<>>
        /\ stdout = <<>>

C4_Witness ==
    /\ Requested = {}
    /\ Cardinality(BaseVariant) = 3
    /\ pc = "aborted"
    /\ error = "ValueError"

\* C5: class histogram. After the image-count cell the output holds, for
\* every class of CLASS_MAP, the number of entries of classes equal to the
\* class's label.
C5_ClassHistogram ==
    "counts" \in bound =>
        \A i \in 1..Len(CLASS_MAP) :
            \E j \in 1..Len(stdout) :
                /\ Len(stdout[j]) = 2
                /\ stdout[j][1] = CLASS_MAP[i][1]
                /\ stdout[j][2] = CountOf(classes, CLASS_MAP[i][2])

\* C6: parallel manifest lists. With processors returning lists of equal
\* length, filenames and classes have equal length from the empty lists
\* through the last processor, and the entries a processor returned sit at
\* the same positions of both lists.
C6_ParallelLists ==
    /\ Len(filenames) = Len(classes)
    /\ (cls.tag = "list" /\ Len(fnames) = Len(cls.val)) =>
          LET k == Len(filenames) - Len(fnames)
          IN  /\ k >= 0
              /\ \A i \in 1..Len(fnames) :
                    filenames[k + i] = fnames[i] /\ classes[k + i] = cls.val[i]

C6_Witness ==
    /\ Len(invoked) >= 2
    /\ Len(filenames) = 2
    /\ Len(fnames) = 1
    /\ filenames[1] # filenames[2]
    /\ classes[1] # classes[2]

\* C7: manifest ordering. The processors called so far are always a prefix
\* of the fixed order (each at most once); when the data preparation cells
\* are through, all of them were called; every step leaves the manifest
\* before it as a prefix of the manifest after it, and a processor that
\* returns appends exactly its lists, in the returned order.
C7_ManifestOrdering ==
    /\ [](IsPrefix(invoked, FullOrder))
    /\ [](pc = "counts" => invoked = FullOrder)
    /\ [][/\ IsPrefix(filenames, filenames')
          /\ IsPrefix(classes, classes')
          /\ (invoked' # invoked /\ error' = "none") =>
                /\ filenames' = filenames \o fnames'
                /\ classes' = classes \o cls'.val
                /\ invoked' = Append(invoked, pc)]_vars

C7_Witness ==
    /\ pc = "counts"
    /\ invoked = ProcessorOrder \o MosMedOrder
    /\ Len(filenames) = 2
    /\ filenames[1] # filenames[2]

\* C8: variant gating. A MosMedData processor is called only when the last
\* character of the version tag is 'B'; in a run that reaches the image-count
\* cell both were called if and only if it is 'B'; for any other variant the
\* MosMed cell leaves filenames, classes and the call log as they were.
C8_MosMedGating ==
    /\ []((\E i \in 1..Len(invoked) : invoked[i] \in Range(MosMedOrder))
            => LastOf(DATASET_VERSION) = 66)
    /\ [](pc = "counts" =>
            (LastOf(DATASET_VERSION) = 66 <=> Range(MosMedOrder) \subseteq Range(invoked)))
    /\ [][pc = "mosmed" =>
            IF LastOf(DATASET_VERSION) = 66
            THEN pc' = "mosmed_seg"
            ELSE /\ pc' = "counts"
                 /\ filenames' = filenames
                 /\ classes' = classes
                 /\ invoked' = invoked
                 /\ FS' = FS]_vars

C8_Witness ==
    /\ pc = "counts"
    /\ DATASET_VERSION = <<51, 67>>
    /\ Len(filenames) = 2
    /\ invoked = ProcessorOrder

\* C9: processor failure. When a processor raises, the run stops at that
\* cell with filenames and classes as they were before the call, and no step
\* follows, so no later processor is called.
C9_ProcessorFailure ==
    /\ [](error = "ProcessorError" => pc = "aborted")
    /\ [][(error = "none" /\ error' = "ProcessorError") =>
            /\ filenames' = filenames
            /\ classes' = classes
            /\ fnames' = fnames
            /\ invoked' = Append(invoked, pc)]_vars
    /\ [][pc # "aborted"]_vars

C9_Witness ==
    /\ error = "ProcessorError"
    /\ pc = "aborted"
    /\ invoked = <<"cncb", "radiopaedia_coronacases_seg">>
    /\ Len(filenames) = 1

\* C10: a split line with fewer than two fields stops the verification with
\* ValueError at that line: the line is not tallied, no summary is printed and
\* no step follows; a line with two or more fields is accepted, and its first
\* field alone is checked for existence.
C10_ShortLine ==
    /\ []("line" \in bound =>
            IF Len(LineFields) < 2
            THEN /\ pc = "aborted"
                 /\ error = "ValueError"
                 /\ ~SummaryPrinted
                 /\ total = Len(visited)
            ELSE /\ error = "none"
                 /\ fname = LineFields[1]
                 /\ cls = PyStr(LineFields[2])
                 /\ LastOf(visited) = LineFields[1])
    /\ [][pc # "aborted"]_vars
    /\ [][("line" \in bound' /\ line' # line /\ Len(py_split(strip_newline(line'))) >= 2) =>
            /\ total' = total + 1
            /\ IF InOutputDir(py_split(strip_newline(line'))[1])
               THEN count' = count + 1 /\ stdout' = stdout
               ELSE count' = count
                    /\ stdout' = Append(stdout, <<"Missing", py_split(strip_newline(line'))[1]>>)]_vars

C10_Witness ==
    /\ pc = "aborted"
    /\ error = "ValueError"
    /\ line = <<10>>
    /\ total = 0
    /\ lines > 0
    /\ split_file < Len(split_files)
====
